---- MODULE Spec2Model ----
(***************************************************************************)
(* The chat resolver of src/app/api/graphql/route.ts.  The file holds four *)
(* successive versions of the resolver:                                    *)
(*   "env"   lines   1-112  Responses API, key taken from ctx.env          *)
(*   "tools" lines 113-353  chat completions with the Amap tool loop       *)
(*   "cf"    lines 355-474  Responses API, key taken through getOpenAI     *)
(*   "edge"  lines 476-590  Responses API, structured messages             *)
(* One behaviour of Spec is one chat request served by one version.        *)
(* Text is modelled as a sequence of characters where the code inspects    *)
(* its characters (route endpoints), and as a string token elsewhere.      *)
(*                                                                         *)
(* The chat widget Home of the page component (part_000) is modelled with  *)
(* the server it posts to; one behaviour of HomeSpec is one session of the *)
(* widget against the "tools" version of the resolver.                     *)
(***************************************************************************)
EXTENDS Integers, Sequences, FiniteSets, TLC

\* ---------------------------------------------------------------- bounds
MaxHistory == 1
MaxTools == 2
\* most tool requests of the requests whose termination is checked
MaxLiveTools == 1
\* most submit events of one session of the chat widget
MaxSubmits == 3

\* ------------------------------------------------------- values and text
Variants == {"env", "tools", "cf", "edge"}

\* JavaScript null and undefined, kept apart from every text value
Null == "<null>"
Undefined == <<"undefined">>

SystemPromptTools == "You are a travel planning assistant. Use Amap tools to search POIs and plan routes. Provide practical itineraries and step-by-step directions."
SystemPromptEdge == "You are a helpful assistant."
FallbackMessage == "Sorry, I encountered an error processing your request."
ConfigMessageEnv == "OpenAI API key is not configured. Set OPENAI_API_KEY in Cloudflare Secrets."
ConfigMessageCf == "OpenAI API key is not configured. Set OPENAI_API_KEY in Cloudflare secrets or .dev.vars."
\* JSON.stringify({ error: ... }); payloads are (key, value) pairs
MissingKeyPayload == << "error", "Missing AMAP_API_KEY" >>
GeocodeFailedPayload == << "error", "Geocode failed" >>

\* the message of the error a failing completion call raises
RawFailure == "connect ECONNREFUSED 10.0.0.1:443"
\* what the caller writes and what the completion service answers
UserText == "Find cafes near Central Park"
FirstText == "first pass text"
FinalText == "final pass text"

\* endpoint texts of the route tool, character by character
PlaceName == <<"a">>
Coordinate == <<"1", ",", "2">>
CommaAddress == <<"a", ",", "b">>
GeocodedLocation == <<"3", ",", "4">>
EmptyString == <<>>
Digits == {"1", "2", "3", "4"}

\* String.prototype.includes for a one-character needle
Includes(s, c) == \E i \in DOMAIN s : s[i] = c

\* a "lng,lat" pair: digits, one comma, digits
IsCoordinate(s) ==
    /\ s # Undefined
    /\ \E k \in DOMAIN s :
         /\ s[k] = ","
         /\ k > 1 /\ k < Len(s)
         /\ \A i \in DOMAIN s : i # k => s[i] \in Digits

\* ------------------------------------------------------ caller's history
\* a turn lacks a role or a content when the field is the empty string
\* (the schema makes both String!, so an absent field cannot arrive)
Turns == { [role |-> "user", content |-> "hi"],
           [role |-> "assistant", content |-> "hello"],
           [role |-> "", content |-> "orphan"],
           [role |-> "assistant", content |-> ""] }

RECURSIVE SeqsUpTo(_, _)
SeqsUpTo(S, n) ==
    IF n = 0 THEN { <<>> }
    ELSE LET shorter == SeqsUpTo(S, n - 1)
         IN shorter \cup { Append(s, x) : s \in { t \in shorter : Len(t) = n - 1 }, x \in S }

Histories == SeqsUpTo(Turns, MaxHistory)

\* history.filter((m) => m.role && m.content)
WellFormed(m) == m.role # "" /\ m.content # ""
safeHistory(h) == SelectSeq(h, WellFormed)

\* `${role}: ${content}` lines of the plain-text input, then the user line
PlainTextInput(h, msg) ==
    [i \in 1..Len(safeHistory(h)) |->
        [role |-> safeHistory(h)[i].role, content |-> safeHistory(h)[i].content]]
    \o << [role |-> "user", content |-> msg] >>

\* toResponsesMessages over [system, ...safeHistory, user]
EdgeMessages(h, msg) ==
    << [role |-> "system", content |-> SystemPromptEdge] >>
    \o [i \in 1..Len(safeHistory(h)) |->
        [role |-> safeHistory(h)[i].role, content |-> safeHistory(h)[i].content]]
    \o << [role |-> "user", content |-> msg] >>

\* extractOutputText: the text when output_text is a string, else ""
extractOutputText(resp) == IF resp = Null THEN "" ELSE resp

\* what a thrown value carries in .message (Null: no message property)
ThrownValues == { RawFailure, Null }
\* (error as {message?})?.message ?? fallback
ResponsesCatchContent(err) == IF err # Null THEN err ELSE FallbackMessage

\* --------------------------------------------------- completion service
\* The service authenticates every call: a client built without a key
\* (lines 119-121, 482-484) gets no answer, its calls only fail.
ServiceAnswers(key) == key

NoResult == [content |-> "<pending>", toolCalls |-> << >>, returned |-> FALSE]
Return(c, tc) == [content |-> c, toolCalls |-> tc, returned |-> TRUE]


\* --------------------------------------------------- first-pass requests
\* JSON.parse(toolCall.function.arguments): ok is FALSE when the text is not JSON
Args(k, a, o, d) == [ok |-> TRUE, keywords |-> k, address |-> a, origin |-> o, destination |-> d]
MalformedArguments ==
    [ok |-> FALSE, keywords |-> Undefined, address |-> Undefined,
     origin |-> Undefined, destination |-> Undefined]
NoArgs == Args(Undefined, Undefined, Undefined, Undefined)
Keyword == <<"c">>

Shape(t, n, a) == [type |-> t, name |-> n, arguments |-> a]
RouteEndpoints ==
    { <<PlaceName, PlaceName>>, <<CommaAddress, Coordinate>>,
      <<Undefined, Coordinate>>, <<Coordinate, Undefined>> }
RequestShapes ==
    { Shape("custom", "customTool", NoArgs),
      Shape("function", "amapSearchPOI", MalformedArguments),
      Shape("function", "unknownTool", NoArgs),
      Shape("function", "amapSearchPOI", Args(Keyword, Undefined, Undefined, Undefined)),
      Shape("function", "amapSearchPOI", NoArgs),
      Shape("function", "amapGeocode", Args(Undefined, PlaceName, Undefined, Undefined)) }
    \cup { Shape("function", "amapGetRoute", Args(Undefined, Undefined, e[1], e[2])) :
             e \in RouteEndpoints }

\* call identifiers: all distinct, or all the same
IdSchemes == { "distinct", "same" }
WithIds(shapes, scheme) ==
    [i \in 1..Len(shapes) |->
        [id |-> IF scheme = "distinct" THEN i ELSE 1,
         type |-> shapes[i].type, name |-> shapes[i].name,
         arguments |-> shapes[i].arguments]]
ToolCallLists ==
    { WithIds(sh, sc) : sh \in SeqsUpTo(RequestShapes, MaxTools) \ { << >> }, sc \in IdSchemes }

\* the tool names the dispatch at lines 298-307 knows
KnownTools == { "amapSearchPOI", "amapGetRoute", "amapGeocode" }

\* `Using Tool: ...` labels, with the interpolated arguments
LogPOI(a) == << "Using Tool: Amap POI", a.keywords >>
LogRoute(a) == << "Using Tool: Amap Route", a.origin, a.destination >>
LogGeocode(a) == << "Using Tool: Amap Geocode", a.address >>
LogOf(tc) ==
    IF tc.name = "amapSearchPOI" THEN LogPOI(tc.arguments)
    ELSE IF tc.name = "amapGetRoute" THEN LogRoute(tc.arguments)
    ELSE LogGeocode(tc.arguments)

ToolResult(tc, payload) ==
    [tool_call_id |-> tc.id, role |-> "tool", name |-> tc.name, content |-> payload]

\* outcomes of fetch(url) followed by res.json()
FetchOutcomes == { "data", "errorBody", "netfail", "badjson" }
\* messages of the errors raised inside the resolver
ArgsSyntaxErrorText == "Unexpected token in JSON arguments"
BodySyntaxErrorText == "Unexpected token < in JSON body"
FetchFailedText == "fetch failed"
TypeErrorText == "Cannot read properties of undefined"
FetchThrows(out) == out \in { "netfail", "badjson" }
FetchError(out) == IF out = "netfail" THEN FetchFailedText ELSE BodySyntaxErrorText
\* JSON.stringify(data): the provider's body, a result or its own error report
Payload(api, out) == IF out = "data" THEN << api, "data" >> ELSE << api, "status 0" >>

\* gj?.geocodes?.[0]?.location, "" unless it is a string
GeocodeOutcomes == { "location", "nolocation", "netfail", "badjson" }
LocationOf(out) == IF out = "location" THEN GeocodedLocation ELSE EmptyString

VARIABLES
    variant,        \* which version of the resolver serves the request
    openaiKey,      \* OPENAI_API_KEY is set (ctx.env or process.env)
    amapKey,        \* AMAP_API_KEY is set
    history,        \* the caller's history argument
    pc,             \* position of the resolver
    messages,       \* the messages array of the resolver
    sent,           \* conversations handed to the completion service, in call order
    choice,         \* completion.choices[0].message of the first pass
    idx,            \* position of the for loop in toolCalls
    toolResults,
    toolCallLogs,
    exec,           \* the running tool executor's locals
    fetches,        \* outbound HTTP calls to the Amap backend, in order
    started,        \* tool requests (by position) whose executor was started
    thrown,         \* the value caught by the resolver's catch, if any
    result,         \* what chat returned
    homeInput,      \* Home: the input state, useState("")
    homeMessages,   \* Home: the messages state, useState<Message[]>([])
    isLoading,      \* Home: useState(false)
    rendered,       \* the state values the committed render's closures and DOM hold
    requests,       \* the fetch calls of handleSubmit, in order, with their progress
    submits,        \* submit events dispatched to the form so far
    lastSubmit      \* what the latest handleSubmit did

vars == << variant, openaiKey, amapKey, history, pc, messages, sent, choice, idx,
           toolResults, toolCallLogs, exec, fetches, started, thrown, result,
           homeInput, homeMessages, isLoading, rendered, requests, submits, lastSubmit >>

\* the resolver's part of the state and the widget's
serverVars == << variant, openaiKey, amapKey, history, pc, messages, sent, choice, idx,
                 toolResults, toolCallLogs, exec, fetches, started, thrown, result >>
homeVars == << homeInput, homeMessages, isLoading, rendered, requests, submits, lastSubmit >>

NoExec == [name |-> "none", step |-> "none", o |-> EmptyString, d |-> EmptyString]
NoChoice == [received |-> FALSE, content |-> Null, has_tool_calls |-> FALSE, tool_calls |-> << >>]
NotThrown == "<none>"

\* the widget after its first render (part_000 lines 20-22)
HomeMounted ==
    /\ homeInput = ""
    /\ homeMessages = << >>
    /\ isLoading = FALSE
    /\ rendered = [input |-> "", messages |-> << >>, isLoading |-> FALSE]
    /\ requests = << >>
    /\ submits = 0
    /\ lastSubmit = "none"

Init ==
    /\ variant \in Variants
    /\ openaiKey \in BOOLEAN
    /\ amapKey \in BOOLEAN
    /\ history \in Histories
    /\ pc = "start"
    /\ messages = << >>
    /\ sent = << >>
    /\ choice = NoChoice
    /\ idx = 1
    /\ toolResults = << >>
    /\ toolCallLogs = << >>
    /\ exec = NoExec
    /\ fetches = << >>
    /\ started = {}
    /\ thrown = NotThrown
    /\ result = NoResult
    /\ HomeMounted

\* ------------------------------------------- the Responses API versions
\* "env": apiKey check, plain-text input, responses.create
EnvChatStart ==
    /\ pc = "start" /\ variant = "env"
    /\ IF ~openaiKey
       THEN /\ result' = Return(ConfigMessageEnv, << >>)
            /\ pc' = "done"
            /\ UNCHANGED << messages, sent >>
       ELSE /\ messages' = PlainTextInput(history, UserText)
            /\ sent' = Append(sent, messages')
            /\ pc' = "responses"
            /\ UNCHANGED result
    /\ UNCHANGED << variant, openaiKey, amapKey, history, choice, idx, toolResults,
                    toolCallLogs, exec, fetches, started, thrown >>
    /\ UNCHANGED homeVars

\* "cf": getOpenAI() returns null without a key
CfChatStart ==
    /\ pc = "start" /\ variant = "cf"
    /\ IF ~openaiKey
       THEN /\ result' = Return(ConfigMessageCf, << >>)
            /\ pc' = "done"
            /\ UNCHANGED << messages, sent >>
       ELSE /\ messages' = PlainTextInput(history, UserText)
            /\ sent' = Append(sent, messages')
            /\ pc' = "responses"
            /\ UNCHANGED result
    /\ UNCHANGED << variant, openaiKey, amapKey, history, choice, idx, toolResults,
                    toolCallLogs, exec, fetches, started, thrown >>
    /\ UNCHANGED homeVars

\* "edge": module-scoped client, no key check, structured messages
EdgeChatStart ==
    /\ pc = "start" /\ variant = "edge"
    /\ messages' = EdgeMessages(history, UserText)
    /\ sent' = Append(sent, messages')
    /\ pc' = "responses"
    /\ UNCHANGED << variant, openaiKey, amapKey, history, choice, idx, toolResults,
                    toolCallLogs, exec, fetches, started, thrown, result >>
    /\ UNCHANGED homeVars

\* responses.create resolves: output_text is a string or is absent
ResponsesReturn ==
    /\ pc = "responses"
    /\ ServiceAnswers(openaiKey)
    /\ \E resp \in { FirstText, Null } :
         result' = Return(extractOutputText(resp), << >>)
    /\ pc' = "done"
    /\ UNCHANGED << variant, openaiKey, amapKey, history, messages, sent, choice, idx,
                    toolResults, toolCallLogs, exec, fetches, started, thrown >>
    /\ UNCHANGED homeVars

\* responses.create rejects: the catch of the Responses versions
ResponsesThrow ==
    /\ pc = "responses"
    /\ \E err \in ThrownValues :
         /\ thrown' = err
         /\ result' = Return(ResponsesCatchContent(err), << >>)
    /\ pc' = "done"
    /\ UNCHANGED << variant, openaiKey, amapKey, history, messages, sent, choice, idx,
                    toolResults, toolCallLogs, exec, fetches, started >>
    /\ UNCHANGED homeVars


\* ------------------------------------------------ the tool-loop version
\* a catch that hands back the log entries collected so far
Catch_KeepsLogs(err) ==
    /\ thrown' = err
    /\ result' = Return(FallbackMessage, toolCallLogs)
    /\ pc' = "done"

\* a catch inside the loop that swallows the error and lets the loop go on
Catch_Swallows(err) ==
    /\ thrown' = err
    /\ pc' = "loop"
    /\ UNCHANGED result

\* a catch that passes the error on instead of returning a result
Catch_Rethrows(err) ==
    /\ thrown' = err
    /\ pc' = "done"
    /\ UNCHANGED result

\* the catch at lines 331-337
Catch(err) ==
    /\ thrown' = err
    /\ result' = Return(FallbackMessage, << >>)
    /\ pc' = "done"

\* lines 258-262: [system, ...(history || []), user]
ToolsMessages(h, msg) ==
    << [role |-> "system", content |-> SystemPromptTools] >>
    \o h
    \o << [role |-> "user", content |-> msg] >>

\* lines 258-270: build messages, first completion call
ToolsChatStart ==
    /\ pc = "start" /\ variant = "tools"
    /\ messages' = ToolsMessages(history, UserText)
    /\ sent' = Append(sent, messages')
    /\ pc' = "first"
    /\ UNCHANGED << variant, openaiKey, amapKey, history, choice, idx, toolResults,
                    toolCallLogs, exec, fetches, started, thrown, result >>
    /\ UNCHANGED homeVars

\* the first completion call rejects
FirstPassThrows ==
    /\ pc = "first"
    /\ \E err \in ThrownValues : Catch(err)
    /\ UNCHANGED << variant, openaiKey, amapKey, history, messages, sent, choice, idx,
                    toolResults, toolCallLogs, exec, fetches, started >>
    /\ UNCHANGED homeVars

\* completion.choices is empty: choice.message raises a TypeError (line 274)
FirstPassNoChoice ==
    /\ pc = "first"
    /\ ServiceAnswers(openaiKey)
    /\ Catch(TypeErrorText)
    /\ UNCHANGED << variant, openaiKey, amapKey, history, messages, sent, choice, idx,
                    toolResults, toolCallLogs, exec, fetches, started >>
    /\ UNCHANGED homeVars

\* completion.choices[0].message: content is text or null, tool_calls is
\* absent, empty, or a list of requests (then content is null)
Message(c, has, tcs) == [received |-> TRUE, content |-> c, has_tool_calls |-> has, tool_calls |-> tcs]
FirstMessages ==
    { Message(c, has, << >>) : c \in { Null, FirstText }, has \in BOOLEAN }
    \cup { Message(Null, TRUE, tcs) : tcs \in ToolCallLists }

\* the length test of line 277 left out
NoToolCalls_LengthUnchecked(msg) == ~msg.has_tool_calls

\* a test that also takes a list without any known tool for "no tool calls"
NoToolCalls_UnknownIsDirect(msg) ==
    \/ ~msg.has_tool_calls
    \/ Len(msg.tool_calls) = 0
    \/ \A i \in DOMAIN msg.tool_calls : msg.tool_calls[i].name \notin KnownTools

\* line 277: !toolCalls || toolCalls.length === 0
NoToolCalls(msg) == ~msg.has_tool_calls \/ Len(msg.tool_calls) = 0

\* lines 272-282: no tool calls, return the first-pass content
FirstPassDirect ==
    /\ pc = "first"
    /\ ServiceAnswers(openaiKey)
    /\ \E msg \in FirstMessages :
         /\ NoToolCalls(msg)
         /\ choice' = msg
         /\ result' = Return(msg.content, << >>)
    /\ pc' = "done"
    /\ UNCHANGED << variant, openaiKey, amapKey, history, messages, sent, idx,
                    toolResults, toolCallLogs, exec, fetches, started, thrown >>
    /\ UNCHANGED homeVars

\* line 289: the assistant turn that carries the tool calls
AssistantTurn(msg) ==
    [role |-> "assistant", content |-> msg.content, tool_calls |-> msg.tool_calls]
PushAssistant(msgs, msg) == Append(msgs, AssistantTurn(msg))

\* lines 284-289: tool calls present, push the assistant turn, enter the loop
FirstPassToolCalls ==
    /\ pc = "first"
    /\ ServiceAnswers(openaiKey)
    /\ \E msg \in FirstMessages :
         /\ ~NoToolCalls(msg)
         /\ choice' = msg
         /\ messages' = PushAssistant(messages, msg)
    /\ toolResults' = << >>
    /\ toolCallLogs' = << >>
    /\ idx' = 1
    /\ pc' = "loop"
    /\ UNCHANGED << variant, openaiKey, amapKey, history, sent, exec, fetches,
                    started, thrown, result >>
    /\ UNCHANGED homeVars

toolCall == choice.tool_calls[idx]
InLoop == pc = "loop" /\ idx <= Len(choice.tool_calls)
Dispatchable == InLoop /\ toolCall.type = "function" /\ toolCall.arguments.ok

\* end of one iteration: lines 300/303/306 and 309-314
FinishIteration(payload) ==
    /\ toolCallLogs' = Append(toolCallLogs, LogOf(toolCall))
    /\ toolResults' = Append(toolResults, ToolResult(toolCall, payload))
    /\ idx' = idx + 1
    /\ exec' = NoExec
    /\ pc' = "loop"

\* line 292: if (toolCall.type !== 'function') continue
LoopSkipNonFunction ==
    /\ InLoop /\ toolCall.type # "function"
    /\ idx' = idx + 1
    /\ UNCHANGED << variant, openaiKey, amapKey, history, pc, messages, sent, choice,
                    toolResults, toolCallLogs, exec, fetches, started, thrown, result >>
    /\ UNCHANGED homeVars

\* line 295: JSON.parse raises on malformed arguments
LoopParseFails ==
    /\ InLoop /\ toolCall.type = "function" /\ ~toolCall.arguments.ok
    /\ Catch(ArgsSyntaxErrorText)
    /\ UNCHANGED << variant, openaiKey, amapKey, history, messages, sent, choice, idx,
                    toolResults, toolCallLogs, exec, fetches, started >>
    /\ UNCHANGED homeVars

\* lines 297-314 with no branch taken: result stays "", no log entry
LoopUnknownTool ==
    /\ Dispatchable /\ toolCall.name \notin KnownTools
    /\ toolResults' = Append(toolResults, ToolResult(toolCall, EmptyString))
    /\ idx' = idx + 1
    /\ UNCHANGED << variant, openaiKey, amapKey, history, pc, messages, sent, choice,
                    toolCallLogs, exec, fetches, started, thrown, result >>
    /\ UNCHANGED homeVars

\* lines 152, 162, 174: every executor returns the error payload without a key
ExecutorMissingKey ==
    /\ Dispatchable /\ toolCall.name \in KnownTools
    /\ ~amapKey
    /\ started' = started \cup { idx }
    /\ FinishIteration(MissingKeyPayload)
    /\ UNCHANGED << variant, openaiKey, amapKey, history, messages, sent, choice,
                    fetches, thrown, result >>
    /\ UNCHANGED homeVars

\* the executor's promise is not awaited: the loop goes on while it runs
StartSingleFetch_NotAwaited ==
    /\ Dispatchable /\ toolCall.name \in { "amapSearchPOI", "amapGeocode" }
    /\ amapKey
    /\ started' = started \cup { idx }
    /\ exec' = [name |-> toolCall.name, step |-> "fetch", o |-> EmptyString, d |-> EmptyString]
    /\ idx' = idx + 1
    /\ UNCHANGED << variant, openaiKey, amapKey, history, pc, messages, sent, choice,
                    toolResults, toolCallLogs, fetches, thrown, result >>
    /\ UNCHANGED homeVars

\* the key test of lines 152 and 162 left out
StartSingleFetch_NoKeyCheck ==
    /\ Dispatchable /\ toolCall.name \in { "amapSearchPOI", "amapGeocode" }
    /\ started' = started \cup { idx }
    /\ exec' = [name |-> toolCall.name, step |-> "fetch", o |-> EmptyString, d |-> EmptyString]
    /\ pc' = "exec"
    /\ UNCHANGED << variant, openaiKey, amapKey, history, messages, sent, choice, idx,
                    toolResults, toolCallLogs, fetches, thrown, result >>
    /\ UNCHANGED homeVars

\* an executor with one backend call is entered: amapSearchPOI, amapGeocode
StartSingleFetch ==
    /\ Dispatchable /\ toolCall.name \in { "amapSearchPOI", "amapGeocode" }
    /\ amapKey
    /\ started' = started \cup { idx }
    /\ exec' = [name |-> toolCall.name, step |-> "fetch", o |-> EmptyString, d |-> EmptyString]
    /\ pc' = "exec"
    /\ UNCHANGED << variant, openaiKey, amapKey, history, messages, sent, choice, idx,
                    toolResults, toolCallLogs, fetches, thrown, result >>
    /\ UNCHANGED homeVars

ApiOf(name) == IF name = "amapSearchPOI" THEN "place/text" ELSE "geocode/geo"
Call(api) == [request |-> idx, api |-> api]

\* lines 156-158 and 168-170: fetch, res.json(), JSON.stringify
SingleFetch ==
    /\ pc = "exec" /\ exec.step = "fetch"
    /\ fetches' = Append(fetches, Call(ApiOf(exec.name)))
    /\ \E out \in FetchOutcomes :
         IF FetchThrows(out)
         THEN /\ Catch(FetchError(out))
              /\ UNCHANGED << idx, toolResults, toolCallLogs, exec >>
         ELSE /\ FinishIteration(Payload(ApiOf(exec.name), out))
              /\ UNCHANGED << thrown, result >>
    /\ UNCHANGED << variant, openaiKey, amapKey, history, messages, sent, choice, started >>
    /\ UNCHANGED homeVars

\* ---- amapGetRoute, lines 172-195 (mode only selects the directions path)
\* toCoords line 176: an input with a comma is returned as it is
NeedsGeocode(input) == ~Includes(input, ",")

\* line 184 onwards, once o and d are known
AfterBoth(o, d) ==
    IF o = EmptyString \/ d = EmptyString
    THEN /\ FinishIteration(GeocodeFailedPayload)
         /\ UNCHANGED << thrown, result >>
    ELSE /\ exec' = [name |-> "amapGetRoute", step |-> "directions", o |-> o, d |-> d]
         /\ pc' = "exec"
         /\ UNCHANGED << idx, toolResults, toolCallLogs, thrown, result >>

\* line 183: toCoords(destination), up to its fetch
AfterOrigin(o) ==
    LET dest == toolCall.arguments.destination IN
    IF dest = Undefined
    THEN /\ Catch(TypeErrorText)
         /\ UNCHANGED << idx, toolResults, toolCallLogs, exec >>
    ELSE IF NeedsGeocode(dest)
    THEN /\ exec' = [name |-> "amapGetRoute", step |-> "geocodeDestination",
                     o |-> o, d |-> EmptyString]
         /\ pc' = "exec"
         /\ UNCHANGED << idx, toolResults, toolCallLogs, thrown, result >>
    ELSE AfterBoth(o, dest)

\* line 182: toCoords(origin), up to its fetch
StartRoute ==
    /\ Dispatchable /\ toolCall.name = "amapGetRoute"
    /\ amapKey
    /\ started' = started \cup { idx }
    /\ LET origin == toolCall.arguments.origin IN
       IF origin = Undefined
       THEN /\ Catch(TypeErrorText)
            /\ UNCHANGED << idx, toolResults, toolCallLogs, exec >>
       ELSE IF NeedsGeocode(origin)
       THEN /\ exec' = [name |-> "amapGetRoute", step |-> "geocodeOrigin",
                        o |-> EmptyString, d |-> EmptyString]
            /\ pc' = "exec"
            /\ UNCHANGED << idx, toolResults, toolCallLogs, thrown, result >>
       ELSE AfterOrigin(origin)
    /\ UNCHANGED << variant, openaiKey, amapKey, history, messages, sent, choice, fetches >>
    /\ UNCHANGED homeVars

\* lines 177-180 for the origin: geocode fetch, then toCoords(destination)
RouteGeocodeOrigin ==
    /\ pc = "exec" /\ exec.step = "geocodeOrigin"
    /\ fetches' = Append(fetches, Call("geocode/geo"))
    /\ \E out \in GeocodeOutcomes :
         IF FetchThrows(out)
         THEN /\ Catch(FetchError(out))
              /\ UNCHANGED << idx, toolResults, toolCallLogs, exec >>
         ELSE AfterOrigin(LocationOf(out))
    /\ UNCHANGED << variant, openaiKey, amapKey, history, messages, sent, choice, started >>
    /\ UNCHANGED homeVars

\* lines 177-180 for the destination, then line 184
RouteGeocodeDestination ==
    /\ pc = "exec" /\ exec.step = "geocodeDestination"
    /\ fetches' = Append(fetches, Call("geocode/geo"))
    /\ \E out \in GeocodeOutcomes :
         IF FetchThrows(out)
         THEN /\ Catch(FetchError(out))
              /\ UNCHANGED << idx, toolResults, toolCallLogs, exec >>
         ELSE AfterBoth(exec.o, LocationOf(out))
    /\ UNCHANGED << variant, openaiKey, amapKey, history, messages, sent, choice, started >>
    /\ UNCHANGED homeVars

\* lines 185-194: the directions request
RouteDirections ==
    /\ pc = "exec" /\ exec.step = "directions"
    /\ fetches' = Append(fetches, Call("direction"))
    /\ \E out \in FetchOutcomes :
         IF FetchThrows(out)
         THEN /\ Catch(FetchError(out))
              /\ UNCHANGED << idx, toolResults, toolCallLogs, exec >>
         ELSE /\ FinishIteration(Payload("direction", out))
              /\ UNCHANGED << thrown, result >>
    /\ UNCHANGED << variant, openaiKey, amapKey, history, messages, sent, choice, started >>
    /\ UNCHANGED homeVars

\* the push of line 318 left out
FoldResults_Dropped(msgs, results) == msgs

\* line 318: messages.push(...toolResults)
FoldResults(msgs, results) == msgs \o results

\* lines 317-324: fold the results into messages, second completion call
LoopExit ==
    /\ pc = "loop" /\ idx > Len(choice.tool_calls)
    /\ messages' = FoldResults(messages, toolResults)
    /\ sent' = Append(sent, messages')
    /\ pc' = "final"
    /\ UNCHANGED << variant, openaiKey, amapKey, history, choice, idx, toolResults,
                    toolCallLogs, exec, fetches, started, thrown, result >>
    /\ UNCHANGED homeVars

\* a rejected second call is issued once more
FinalPassThrows_Retries ==
    /\ pc = "final"
    /\ Len(sent) < 3
    /\ sent' = Append(sent, messages)
    /\ UNCHANGED << variant, openaiKey, amapKey, history, pc, messages, choice, idx,
                    toolResults, toolCallLogs, exec, fetches, started, thrown, result >>
    /\ UNCHANGED homeVars

\* the second completion call rejects
FinalPassThrows ==
    /\ pc = "final"
    /\ \E err \in ThrownValues : Catch(err)
    /\ UNCHANGED << variant, openaiKey, amapKey, history, messages, sent, choice, idx,
                    toolResults, toolCallLogs, exec, fetches, started >>
    /\ UNCHANGED homeVars

\* finalCompletion.choices is empty: line 327 raises a TypeError
FinalPassNoChoice ==
    /\ pc = "final"
    /\ ServiceAnswers(openaiKey)
    /\ Catch(TypeErrorText)
    /\ UNCHANGED << variant, openaiKey, amapKey, history, messages, sent, choice, idx,
                    toolResults, toolCallLogs, exec, fetches, started >>
    /\ UNCHANGED homeVars

\* lines 326-329
FinalPassReturns ==
    /\ pc = "final"
    /\ ServiceAnswers(openaiKey)
    /\ \E c \in { Null, FinalText } : result' = Return(c, toolCallLogs)
    /\ pc' = "done"
    /\ UNCHANGED << variant, openaiKey, amapKey, history, messages, sent, choice, idx,
                    toolResults, toolCallLogs, exec, fetches, started, thrown >>
    /\ UNCHANGED homeVars

Next ==
    \/ EnvChatStart
    \/ CfChatStart
    \/ EdgeChatStart
    \/ ResponsesReturn
    \/ ResponsesThrow
    \/ ToolsChatStart
    \/ FirstPassThrows
    \/ FirstPassNoChoice
    \/ FirstPassDirect
    \/ FirstPassToolCalls
    \/ LoopSkipNonFunction
    \/ LoopParseFails
    \/ LoopUnknownTool
    \/ ExecutorMissingKey
    \/ StartSingleFetch
    \/ SingleFetch
    \/ StartRoute
    \/ RouteGeocodeOrigin
    \/ RouteGeocodeDestination
    \/ RouteDirections
    \/ LoopExit
    \/ FinalPassThrows
    \/ FinalPassNoChoice
    \/ FinalPassReturns

Spec == Init /\ [][Next]_vars

\* every awaited call settles: a resolver that can take a step takes one
\* (requests of at most MaxLiveTools tool calls)
FairNext == Next /\ Len(choice'.tool_calls) <= MaxLiveTools
FairSpec == Init /\ [][FairNext]_vars /\ WF_vars(FairNext)

\* ===================================================================
\* The chat widget (src/unnamed/part_000, the client component Home)
\* ===================================================================

\* what the input box can hold, and String.prototype.trim() of each
Blank == "  "
Texts == { "", Blank, "gm ", "ETH price?" }
trim(s) == CASE s = Blank -> "" [] s = "gm " -> "gm" [] OTHER -> s

SorryText == "Sorry, something went wrong. Please check your API Key configuration."

\* line 37, lines 75-79 and lines 84-85: the three kinds of Message
UserMessage(text) == [role |-> "user", content |-> text]
AssistantMessage(data) ==
    [role |-> "assistant", content |-> data.content, toolCalls |-> data.toolCalls]
SorryMessage == [role |-> "assistant", content |-> SorryText]

\* line 54: messages.map(({ role, content }) => ({ role, content }))
RoleAndContent(list) ==
    [i \in 1..Len(list) |-> [role |-> list[i].role, content |-> list[i].content]]

\* a response body: not JSON at all, or JSON with or without errors and data
NoChat == [content |-> Null, toolCalls |-> << >>, returned |-> FALSE]
NoBody == [kind |-> "none", errors |-> FALSE, data |-> FALSE, chat |-> NoChat]
NotJson == [kind |-> "text", errors |-> FALSE, data |-> FALSE, chat |-> NoChat]
EmptyJson == [kind |-> "json", errors |-> FALSE, data |-> FALSE, chat |-> NoChat]
ErrorsBody == [kind |-> "json", errors |-> TRUE, data |-> FALSE, chat |-> NoChat]
DataBody(chat) == [kind |-> "json", errors |-> FALSE, data |-> TRUE, chat |-> chat]

\* what the resolver can return to the widget (route.ts lines 278-281, 326-329)
ChatAnswers == { Return(FinalText, << LogGeocode([address |-> PlaceName]) >>),
                 Return(Null, << >>) }

\* a request whose history is taken after the new user message was appended
RequestOf_WithNewTurn(prev, userMessage) ==
    [message |-> userMessage.content,
     history |-> RoleAndContent(Append(prev, userMessage)),
     stage |-> "sent", body |-> NoBody]

\* lines 54-63: variables: { message: userMessage.content, history }
RequestOf(prev, userMessage) ==
    [message |-> userMessage.content, history |-> RoleAndContent(prev),
     stage |-> "sent", body |-> NoBody]

\* a render commits the state: closures and DOM attributes read these values
Rerender ==
    rendered' = [input |-> homeInput', messages |-> homeMessages',
                 isLoading |-> isLoading']

\* the guard with only the loading half
Accepts_AnyInput == ~rendered.isLoading

\* line 35: if (!input.trim() || isLoading) return;
Accepts == trim(rendered.input) # "" /\ ~rendered.isLoading

\* lines 33-63: handleSubmit up to its first await; the event's updates are
\* rendered before the next event is dispatched
handleSubmit ==
    /\ submits < MaxSubmits
    /\ submits' = submits + 1
    /\ IF ~Accepts
       THEN /\ lastSubmit' = "ignored"
            /\ UNCHANGED << homeInput, homeMessages, isLoading, rendered, requests >>
       ELSE LET userMessage == UserMessage(rendered.input)
            IN /\ homeMessages' = Append(homeMessages, userMessage)
               /\ homeInput' = ""
               /\ isLoading' = TRUE
               /\ requests' = Append(requests, RequestOf(rendered.messages, userMessage))
               /\ lastSubmit' = "accepted"
               /\ Rerender
    /\ UNCHANGED serverVars

\* lines 212-218: onChange of the input, which is disabled while loading
onChange ==
    /\ ~rendered.isLoading
    /\ \E text \in Texts : homeInput' = text
    /\ UNCHANGED << homeMessages, isLoading, requests, submits, lastSubmit >>
    /\ Rerender
    /\ UNCHANGED serverVars

\* the requests at one point of their way
Pending(stage) == { i \in DOMAIN requests : requests[i].stage = stage }
Advance(i, stage, body) ==
    requests' = [requests EXCEPT ![i].stage = stage, ![i].body = body]

\* route.ts lines 124-127: content of a MessageInput is String!
VariablesValid(r) == \A i \in DOMAIN r.history : r.history[i].content # Null

\* the server answers a request: its variables are refused, or the resolver
\* builds its conversation (lines 258-262) and returns
YogaAnswers ==
    /\ \E i \in Pending("sent") :
         IF ~VariablesValid(requests[i])
         THEN /\ Advance(i, "answered", ErrorsBody)
              /\ UNCHANGED << history, messages >>
         ELSE /\ history' = requests[i].history
              /\ messages' = ToolsMessages(requests[i].history, requests[i].message)
              /\ \E chat \in ChatAnswers : Advance(i, "answered", DataBody(chat))
    /\ UNCHANGED << variant, openaiKey, amapKey, pc, sent, choice, idx, toolResults,
                    toolCallLogs, exec, fetches, started, thrown, result >>
    /\ UNCHANGED << homeInput, homeMessages, isLoading, rendered, submits, lastSubmit >>

\* the response comes from in front of the handler: a body that is no JSON,
\* or JSON with neither data nor errors
GatewayAnswers ==
    /\ \E i \in Pending("sent"), body \in { NotJson, EmptyJson } :
         Advance(i, "answered", body)
    /\ UNCHANGED << homeInput, homeMessages, isLoading, rendered, submits, lastSubmit >>
    /\ UNCHANGED serverVars

\* lines 87-89: finally { setIsLoading(false) }
Finally == isLoading' = FALSE

\* a catch that reports the failure but is not followed by the finally
Failed_StaysLoading ==
    /\ homeMessages' = Append(homeMessages, SorryMessage)
    /\ UNCHANGED isLoading

\* a catch that only logs the error
Failed_Silent ==
    /\ UNCHANGED homeMessages
    /\ Finally

\* lines 81-89: catch, then finally
Failed ==
    /\ homeMessages' = Append(homeMessages, SorryMessage)
    /\ Finally

\* lines 71-80 and 87-89: the answer is appended, then finally
Succeeded(data) ==
    /\ homeMessages' = Append(homeMessages, AssistantMessage(data))
    /\ Finally

\* await fetch(...) rejects (lines 56-63)
FetchRejects ==
    /\ \E i \in Pending("sent") \cup Pending("answered") :
         Advance(i, "settled", requests[i].body)
    /\ Failed
    /\ UNCHANGED << homeInput, rendered, submits, lastSubmit >>
    /\ UNCHANGED serverVars

\* await fetch(...) resolves with the response (line 56)
FetchResolves ==
    /\ \E i \in Pending("answered") : Advance(i, "json", requests[i].body)
    /\ UNCHANGED << homeInput, homeMessages, isLoading, rendered, submits, lastSubmit >>
    /\ UNCHANGED serverVars

\* lines 65-89: await res.json() settles and the handler runs to its end
JsonSettles ==
    /\ \E i \in Pending("json") :
         LET json == requests[i].body
         IN /\ Advance(i, "settled", json)
            /\ IF json.kind # "json" \/ json.errors \/ ~json.data
               THEN Failed
               ELSE Succeeded(json.chat)
    /\ UNCHANGED << homeInput, rendered, submits, lastSubmit >>
    /\ UNCHANGED serverVars

\* the updates made after an await are rendered in a later task
Render ==
    /\ rendered # [input |-> homeInput, messages |-> homeMessages, isLoading |-> isLoading]
    /\ UNCHANGED << homeInput, homeMessages, isLoading, requests, submits, lastSubmit >>
    /\ Rerender
    /\ UNCHANGED serverVars

\* one session of the widget against the "tools" resolver with its keys set
HomeInit ==
    /\ variant = "tools"
    /\ openaiKey = TRUE
    /\ amapKey = TRUE
    /\ history = << >>
    /\ pc = "start"
    /\ messages = << >>
    /\ sent = << >>
    /\ choice = NoChoice
    /\ idx = 1
    /\ toolResults = << >>
    /\ toolCallLogs = << >>
    /\ exec = NoExec
    /\ fetches = << >>
    /\ started = {}
    /\ thrown = NotThrown
    /\ result = NoResult
    /\ HomeMounted

HomeNext ==
    \/ handleSubmit
    \/ onChange
    \/ YogaAnswers
    \/ GatewayAnswers
    \/ FetchRejects
    \/ FetchResolves
    \/ JsonSettles
    \/ Render

HomeSpec == HomeInit /\ [][HomeNext]_vars

\* a request that was sent settles, its continuation runs and React renders
Settling ==
    YogaAnswers \/ GatewayAnswers \/ FetchRejects \/ FetchResolves \/ JsonSettles \/ Render
HomeFairSpec == HomeInit /\ [][HomeNext]_vars /\ WF_vars(Settling)

\* ===================================================================
\* Properties
\* ===================================================================
Requests == choice.tool_calls
NumRequests == Len(Requests)
FirstPassAnswered == variant = "tools" /\ choice.received
FirstPassFailed == variant = "tools" /\ ~choice.received /\ thrown # NotThrown
FinalPassInvoked == variant = "tools" /\ Len(sent) = 2
FinalPassFailed == FinalPassInvoked /\ thrown # NotThrown
FinalPassSucceeded == FinalPassInvoked /\ result.returned /\ thrown = NotThrown
CompletionCallFailed ==
    \/ FirstPassFailed
    \/ FinalPassFailed
    \/ variant # "tools" /\ thrown # NotThrown
IsToolTurn(m) == m.role = "tool"
IsFunctionCall(tc) == tc.type = "function"
ConfigMessages == { ConfigMessageEnv, ConfigMessageCf }

\* C1: whatever chat returns has a non-null content.
C1_ContentIsText == result.returned => result.content # Null

\* C2: when the first pass answers without tool requests, chat returns
\* toolCalls = [] and made no executor call, no backend call and no
\* second completion call.
C2_DirectPath ==
    (FirstPassAnswered /\ NumRequests = 0) =>
        /\ result.returned
        /\ result.toolCalls = << >>
        /\ started = {}
        /\ fetches = << >>
        /\ Len(sent) = 1
C2_Witness ==
    /\ FirstPassAnswered /\ NumRequests = 0 /\ choice.has_tool_calls
    /\ result.returned /\ result.content = FirstText

\* C3: once the second pass is invoked, the conversation it got holds one
\* tool result per first-pass request, the k-th carrying the k-th request's id.
C3_OneResultPerRequest ==
    FinalPassInvoked =>
        LET results == SelectSeq(sent[2], IsToolTurn) IN
        /\ Len(results) = NumRequests
        /\ \A k \in 1..NumRequests : results[k].tool_call_id = Requests[k].id

\* C4: when the second pass succeeds, toolCalls has one entry per first-pass
\* request, the i-th describing the i-th request.
C4_OneLogPerRequest ==
    FinalPassSucceeded =>
        /\ Len(result.toolCalls) = NumRequests
        /\ \A i \in 1..NumRequests :
             (IsFunctionCall(Requests[i]) /\ Requests[i].name \in KnownTools)
                 => result.toolCalls[i] = LogOf(Requests[i])

\* C5: the conversation of the second pass is the conversation of the first
\* pass, then the assistant's tool-requesting turn, then the tool results in
\* request order, and nothing else.
C5_SecondPassConversation ==
    FinalPassInvoked =>
        LET n == Len(sent[1])
            tail == SubSeq(sent[2], n + 2, Len(sent[2]))
            executed == SelectSeq(Requests, IsFunctionCall)
        IN
        /\ Len(sent[2]) >= n + 1
        /\ SubSeq(sent[2], 1, n) = sent[1]
        /\ sent[2][n + 1] = AssistantTurn(choice)
        /\ tail = toolResults
        /\ Len(tail) = Len(executed)
        /\ \A k \in 1..Len(tail) :
             /\ tail[k].role = "tool"
             /\ tail[k].tool_call_id = executed[k].id
             /\ tail[k].name = executed[k].name
C5_Witness ==
    /\ FinalPassInvoked
    /\ Len(history) = MaxHistory
    /\ Len(toolResults) = 2
    /\ toolResults[1].tool_call_id # toolResults[2].tool_call_id

\* C6: when a completion call fails, the content is the fixed message (or a
\* configuration message), never the text of the error.
C6_FixedFailureMessage ==
    CompletionCallFailed =>
        /\ result.content \in { FallbackMessage } \cup ConfigMessages
        /\ result.content # thrown

\* C7: a request that ends in the catch returns toolCalls = [], also when
\* log entries were already collected.
C7_FailedReturnsNoLogs ==
    thrown # NotThrown => result.returned /\ result.toolCalls = << >>
C7_Witness ==
    /\ FinalPassFailed
    /\ Len(toolCallLogs) >= 1
    /\ result.returned

\* C8: without the completion-service key no completion call and no backend
\* call is made, and chat returns a configuration message with toolCalls = [].
C8_MissingKeyShortCircuits ==
    ~openaiKey =>
        /\ Len(sent) = 0
        /\ fetches = << >>
        /\ result.returned =>
             (result.content \in ConfigMessages /\ result.toolCalls = << >>)

\* C9: every directions call of a route request is preceded by one geocode
\* call of that request per endpoint that is not a coordinate, and is only
\* issued with both endpoints resolved.
NonCoordinateEndpoints(a) ==
    (IF IsCoordinate(a.origin) THEN 0 ELSE 1) + (IF IsCoordinate(a.destination) THEN 0 ELSE 1)
GeocodesBefore(j) ==
    Cardinality({ i \in 1..(j - 1) :
        fetches[i].request = fetches[j].request /\ fetches[i].api = "geocode/geo" })
C9_GeocodeBeforeDirections ==
    /\ \A j \in DOMAIN fetches :
         fetches[j].api = "direction" =>
             GeocodesBefore(j) = NonCoordinateEndpoints(Requests[fetches[j].request].arguments)
    /\ (pc = "exec" /\ exec.step = "directions") =>
             (exec.o # EmptyString /\ exec.d # EmptyString)

\* C10: a transport error of a backend call never reaches the resolver's
\* catch: it does not fail the request.
C10_TransportErrorIsPayload ==
    thrown \notin { FetchFailedText, BodySyntaxErrorText }

\* the tool turns of the second-pass conversation, in order
SecondPassResults == SelectSeq(sent[2], IsToolTurn)

\* C11: a request with an unknown tool name does not fail the request and
\* gets a tool result whose payload is a non-empty description of the
\* unknown-tool condition.
C11_UnknownToolPayload ==
    FinalPassInvoked =>
        \A k \in 1..Len(SecondPassResults) :
            SecondPassResults[k].name \notin KnownTools
                => SecondPassResults[k].content # EmptyString

\* a failure raised inside the tool loop, between the two completion calls
FailedInLoop == FirstPassAnswered /\ Len(sent) = 1 /\ thrown # NotThrown

\* C12: without the backend key no HTTP call is made and no executor raises;
\* every executed request gets the missing-key payload, and these payloads
\* are what the second pass receives.
C12_MissingBackendKey ==
    ~amapKey =>
        /\ fetches = << >>
        /\ pc # "exec"
        /\ FailedInLoop => thrown = ArgsSyntaxErrorText
        /\ \A k \in 1..Len(toolResults) :
             toolResults[k].name \in KnownTools => toolResults[k].content = MissingKeyPayload
        /\ FinalPassInvoked =>
             /\ Cardinality(started)
                  = Len(SelectSeq(SecondPassResults, LAMBDA m : m.name \in KnownTools))
             /\ \A k \in 1..Len(SecondPassResults) :
                  SecondPassResults[k].name \in KnownTools
                      => SecondPassResults[k].content = MissingKeyPayload
C12_Witness ==
    /\ ~amapKey
    /\ FinalPassInvoked
    /\ Cardinality(started) = 2
    /\ \E k \in started :
         Requests[k].name = "amapGetRoute" /\ Requests[k].arguments.origin = Undefined

\* C13: provided every outbound call returns or fails, every request ends
\* with a returned {content, toolCalls} result, and the resolver never ends
\* without one.
C13_AlwaysAnswers ==
    /\ [](pc = "done" => result.returned)
    /\ <>(pc = "done" /\ result.returned)
C13_Witness ==
    /\ pc = "done" /\ result.returned
    /\ FailedInLoop /\ thrown = FetchFailedText
    /\ Len(fetches) = 2

\* C14: malformed arguments or a missing required argument never fail the
\* request: neither JSON.parse nor an executor raises into the resolver's catch.
C14_ArgumentErrorIsPayload ==
    FailedInLoop => thrown \notin { ArgsSyntaxErrorText, TypeErrorText }

\* C15: the tool results given to the second pass have pairwise distinct
\* call identifiers: a request whose identifier was already seen is dropped.
C15_DistinctCallIds ==
    FinalPassInvoked =>
        \A j, k \in 1..Len(SecondPassResults) :
            j # k => SecondPassResults[j].tool_call_id # SecondPassResults[k].tool_call_id

\* no request of the first pass names a tool of the registry
NoneResolves ==
    /\ NumRequests > 0
    /\ \A i \in 1..NumRequests :
         ~(IsFunctionCall(Requests[i]) /\ Requests[i].name \in KnownTools)

\* C16: when the first pass requests tools and none of them is known, no
\* executor runs, and a request that returns without failure has invoked
\* the second pass and returns the second pass's content.
C16_NoneResolvesStillFinal ==
    (FirstPassAnswered /\ NoneResolves) =>
        /\ started = {}
        /\ fetches = << >>
        /\ (result.returned /\ thrown = NotThrown) =>
             (FinalPassInvoked /\ result.content \in { FinalText, Null })
C16_Witness ==
    /\ FirstPassAnswered /\ NoneResolves
    /\ NumRequests = 2
    /\ \E i \in 1..NumRequests : Requests[i].name = "unknownTool"
    /\ result.returned /\ result.content = FinalText

\* C17: the first-pass conversation is the system instruction, the
\* well-formed turns of the history in their order, and the new user turn;
\* no turn without a role or without content is in it.
SystemPromptOf(v) == IF v = "tools" THEN SystemPromptTools ELSE SystemPromptEdge
C17_FirstPassConversation ==
    Len(sent) >= 1 =>
        /\ \A i \in DOMAIN sent[1] : WellFormed(sent[1][i])
        /\ variant \in { "tools", "edge" } =>
             sent[1] = << [role |-> "system", content |-> SystemPromptOf(variant)] >>
                       \o safeHistory(history)
                       \o << [role |-> "user", content |-> UserText] >>

\* C18: at most two completion calls, each request's executor entered at
\* most once with at most its own backend calls, nothing after a failure,
\* and no tool execution after the second pass was invoked.
CallsOf(r, api) ==
    Cardinality({ i \in DOMAIN fetches : fetches[i].request = r /\ fetches[i].api = api })
MostCalls(name, api) ==
    IF name = "amapSearchPOI" THEN (IF api = "place/text" THEN 1 ELSE 0)
    ELSE IF name = "amapGeocode" THEN (IF api = "geocode/geo" THEN 1 ELSE 0)
    ELSE IF name = "amapGetRoute" THEN (IF api = "geocode/geo" THEN 2
                                         ELSE IF api = "direction" THEN 1 ELSE 0)
    ELSE 0
Apis == { "place/text", "geocode/geo", "direction" }
C18_State ==
    /\ Len(sent) <= 2
    /\ \A r \in 1..NumRequests : \A api \in Apis :
         CallsOf(r, api) <= (IF IsFunctionCall(Requests[r])
                             THEN MostCalls(Requests[r].name, api) ELSE 0)
C18_Step ==
    /\ started' # started => (idx \notin started /\ started' = started \cup { idx })
    /\ idx' >= idx
    /\ thrown # NotThrown => (sent' = sent /\ fetches' = fetches /\ started' = started)
    /\ Len(sent) = 2 =>
         (sent' = sent /\ fetches' = fetches /\ started' = started
          /\ toolResults' = toolResults)
C18_NoReissue == [] C18_State /\ [][C18_Step]_vars
C18_Witness ==
    /\ FinalPassFailed
    /\ Cardinality(started) = 2
    /\ \E r \in started : CallsOf(r, "geocode/geo") = 2 /\ CallsOf(r, "direction") = 1

\* C19: when the second pass is invoked no executor is running, the loop is
\* over, and every started executor's result is in the conversation.
KnownResults(results) == SelectSeq(results, LAMBDA m : m.name \in KnownTools)
C19_AllSettledBeforeFinal ==
    FinalPassInvoked =>
        /\ exec = NoExec
        /\ pc \in { "final", "done" }
        /\ idx = NumRequests + 1
        /\ Len(KnownResults(SecondPassResults)) = Cardinality(started)
C19_Witness ==
    /\ FinalPassInvoked
    /\ Cardinality(started) = 2
    /\ Len(fetches) >= 2

\* C20: executors run one at a time in request order, and when one raises
\* the request ends there: nothing later is executed, no second pass.
ExecutorErrors == { FetchFailedText, BodySyntaxErrorText, TypeErrorText }
ExecutorRaised == FailedInLoop /\ thrown \in ExecutorErrors
C20_State ==
    /\ \A j \in started : j <= idx
    /\ Cardinality(started) - Len(KnownResults(toolResults))
         = (IF pc = "exec" \/ ExecutorRaised THEN 1 ELSE 0)
    /\ pc = "exec" => idx \in started
    /\ \A i, j \in DOMAIN fetches : i < j => fetches[i].request <= fetches[j].request
    /\ ExecutorRaised => (pc = "done" /\ Len(sent) = 1 /\ idx \in started)
C20_OneAtATime == [] C20_State /\ [][thrown = NotThrown]_vars
C20_Witness ==
    /\ ExecutorRaised
    /\ idx = 1 /\ NumRequests = 2
    /\ Requests[2].name \in KnownTools /\ Requests[2].arguments.ok

\* ------------------------------------------------------------- widget
\* the requests whose handleSubmit has not run to its end
InFlight == { i \in DOMAIN requests : requests[i].stage # "settled" }
AllSettled == InFlight = {}
SubmitEvent == submits' = submits + 1
Accepted == Len(requests') > Len(requests)
NewRequest == requests'[Len(requests')]

\* C21: at most one chat request is in flight at any time, and a submit that
\* occurs while isLoading is true, or with an input that is empty after
\* trimming, sends no request and changes neither the message list nor the
\* input.
C21_OneRequestInFlight ==
    /\ [](Cardinality(InFlight) <= 1)
    /\ [][ (SubmitEvent /\ (isLoading \/ trim(homeInput) = ""))
             => UNCHANGED << requests, homeMessages, homeInput >> ]_vars
\* a submit was ignored while a request was in flight
C21_Witness ==
    /\ lastSubmit = "ignored"
    /\ isLoading
    /\ Cardinality(InFlight) = 1

\* C22: every accepted submit eventually sets isLoading back to false,
\* whichever way its request ends (an answer, GraphQL errors, no data, a
\* failed fetch); once every request has settled the widget is not loading,
\* and a render that shows the loading state is followed by one that does not.
C22_LoadingEnds ==
    /\ [](AllSettled => ~isLoading)
    /\ (isLoading ~> ~isLoading)
    /\ (rendered.isLoading ~> ~rendered.isLoading)
\* a request failed and the widget left the loading state
C22_Witness ==
    /\ requests # << >>
    /\ AllSettled
    /\ homeMessages[Len(homeMessages)].content = SorryText
    /\ ~isLoading /\ ~rendered.isLoading

\* C23: every accepted submit appends exactly one user message and, when its
\* request settles, exactly one assistant message (the server's answer, or
\* the fixed text on an error); the list alternates user, assistant from a
\* user message on, and holds two messages per request once all have settled.
Alternates(list) ==
    \A i \in DOMAIN list : list[i].role = IF i % 2 = 1 THEN "user" ELSE "assistant"
C23_State ==
    /\ Alternates(homeMessages)
    /\ Len(homeMessages) = 2 * Len(requests) - Cardinality(InFlight)
C23_Step ==
    /\ Accepted => homeMessages' = Append(homeMessages, UserMessage(NewRequest.message))
    /\ InFlight' # InFlight /\ ~Accepted =>
         \E i \in InFlight \ InFlight' :
            LET m == homeMessages'[Len(homeMessages')]
            IN /\ Len(homeMessages') = Len(homeMessages) + 1
               /\ SubSeq(homeMessages', 1, Len(homeMessages)) = homeMessages
               /\ m.role = "assistant"
               /\ \/ m.content = SorryText
                  \/ requests[i].body.data /\ m.content = requests[i].body.chat.content
C23_OneUserOneAssistant == [](C23_State) /\ [][C23_Step]_vars
\* two requests have settled, one with the fixed text and one with an answer
C23_Witness ==
    /\ AllSettled
    /\ \E i, j \in DOMAIN homeMessages :
         /\ homeMessages[i].content = SorryText
         /\ homeMessages[j].content = FinalText

\* C24: the history sent with a request is the message list as it was before
\* the new user message was appended, reduced to role and content in order,
\* and the new text is the message argument; the conversation the resolver
\* builds is the system prompt followed by the widget's list with the new
\* user message, which is its last element and occurs nowhere else.
C24_Step ==
    /\ Accepted =>
         /\ NewRequest.history = RoleAndContent(homeMessages)
         /\ NewRequest.message = homeInput
         /\ homeMessages' = Append(homeMessages, UserMessage(homeInput))
    /\ messages' # messages =>
         /\ Tail(messages') = RoleAndContent(homeMessages)
         /\ messages'[Len(messages')] = UserMessage(requests[Len(requests)].message)
         /\ Len(messages') = Len(homeMessages) + 1
C24_HistoryIsPriorList == [][C24_Step]_vars
\* the resolver built the conversation of a second request
C24_Witness ==
    /\ Len(requests) >= 2
    /\ requests[Len(requests)].stage = "answered"
    /\ requests[Len(requests)].body.data
    /\ Len(messages) = Len(homeMessages) + 1
    /\ Len(requests[Len(requests)].history) = Len(homeMessages) - 1

====
